---- MODULE Spec2Model ----
(***************************************************************************)
(* Model of the two FreeCAD diff macros, beta_diff.py (aggregation by      *)
(* Compound, "Preservation") and step_diff.py (aggregation by fuse,        *)
(* "Union").  One run of main() is a walk of pc from "select" to "done"    *)
(* or "aborted".                                                           *)
(*                                                                         *)
(* Geometry.  Space is a row of unit cells; a solid occupies a set of      *)
(* cells and has an orientation (sign), so Volume = sign * number of       *)
(* cells.  Volumes are counted in units of TOLLERANZA_VOLUME (1e-6 mm^3),  *)
(* so the tolerance is 1 and a one-cell solid has |Volume| = tolerance.    *)
(* The kernel's fuse / common / cut act on the occupied cells; the Volume  *)
(* of a Compound is the sum of the Volumes of its members.  Whether a      *)
(* kernel call raises, and the orientation of a boolean result, are        *)
(* chosen by the environment at the call.                                  *)
(***************************************************************************)
EXTENDS Integers, Sequences, FiniteSets, TLC

VARIABLES variant, docs, pc, collected, doc_old, doc_new,
          vecchio_shape, nuovo_shape, aggr, kout, res, shapes,
          doc_cmp, report, err, surfaced, calls, ncomb

vars == <<variant, docs, pc, collected, doc_old, doc_new,
          vecchio_shape, nuovo_shape, aggr, kout, res, shapes,
          doc_cmp, report, err, surfaced, calls, ncomb>>

\* ---------------------------------------------------------------- bounds
MaxDocs == 3

\* ------------------------------------------------------------- constants
TOLLERANZA_VOLUME == 1

Abs(x) == IF x < 0 THEN -x ELSE x

Categories == {"invariate", "aggiunte", "rimosse"}

\* ------------------------------------------------- document entries
\* kind "noattr": the object has no Shape attribute; "raises": the object
\* has a Shape whose isValid()/Volume raises; "shape": a readable shape.
Entry(k, c, s, v) == [kind |-> k, cells |-> c, sign |-> s, valid |-> v]
NoAttr  == Entry("noattr", {}, 1, FALSE)
Raises  == Entry("raises", {}, 1, FALSE)
Tiny    == Entry("shape", {1}, 1, TRUE)
Invalid == Entry("shape", {1, 2}, 1, FALSE)
P12     == Entry("shape", {1, 2}, 1, TRUE)
P23     == Entry("shape", {2, 3}, 1, TRUE)
P34     == Entry("shape", {3, 4}, 1, TRUE)
P1234   == Entry("shape", {1, 2, 3, 4}, 1, TRUE)
N12     == Entry("shape", {1, 2}, -1, TRUE)
N23     == Entry("shape", {2, 3}, -1, TRUE)

DocPool ==
  { <<NoAttr, Tiny>>,        \* nothing significant
    <<Raises, P12>>,         \* an unreadable entry before a solid
    <<P12, P23>>,            \* two solids sharing one cell
    <<P1234, P23>>,          \* two solids sharing two cells
    <<P34>>,                 \* one solid
    <<P1234, Invalid>>,      \* one solid and an invalid one
    <<N12, Invalid>>,        \* one solid of negative volume
    <<P12, N23>> }           \* volumes that cancel in a Compound

RECURSIVE SeqsUpTo(_, _)
SeqsUpTo(S, n) ==
  IF n = 0 THEN { <<>> }
  ELSE LET shorter == SeqsUpTo(S, n - 1)
       IN  shorter \cup { Append(q, x) : q \in { r \in shorter : Len(r) = n - 1 }, x \in S }

\* ------------------------------------------------------------- shapes
NoneShape == [id |-> 0, type |-> "None", cells |-> {}, vol |-> 0]
IsNone(s) == s.type = "None"

EntryVolume(e) == e.sign * Cardinality(e.cells)
ShapeOf(e)     == [id |-> 0, type |-> "Solid", cells |-> e.cells, vol |-> EntryVolume(e)]

RECURSIVE SumVol(_)
SumVol(ss) == IF ss = <<>> THEN 0 ELSE Head(ss).vol + SumVol(Tail(ss))

RECURSIVE UnionCells(_)
UnionCells(ss) == IF ss = <<>> THEN {} ELSE Head(ss).cells \cup UnionCells(Tail(ss))

\* obj.Shape.Volume > TOLLERANZA_VOLUME, with abs() in beta_diff.py only
Significant(var, v) ==
  IF var = "beta" THEN Abs(v) > TOLLERANZA_VOLUME ELSE v > TOLLERANZA_VOLUME

\* the body of the loop of get_valid_shapes for one object
Accepts(var, e) ==
  /\ e.kind = "shape"
  /\ e.valid
  /\ Significant(var, EntryVolume(e))

RECURSIVE get_valid_shapes(_, _)
get_valid_shapes(var, doc) ==
  IF doc = <<>> THEN <<>>
  ELSE LET rest == get_valid_shapes(var, Tail(doc))
       IN  IF Accepts(var, Head(doc)) THEN <<ShapeOf(Head(doc))>> \o rest ELSE rest

\* ------------------------------------------------------- kernel (external)
Solid(c, sign) == [id |-> 0, type |-> "Solid", cells |-> c, vol |-> sign * Cardinality(c)]

\* Part.makeCompound(shapes): members kept apart, Volume the sum of theirs
MakeCompound(ss) == [id |-> 0, type |-> "Compound", cells |-> UnionCells(ss), vol |-> SumVol(ss)]

\* a.fuse(b)
Fuse(a, b) == Solid(a.cells \cup b.cells, 1)

\* removeSplitter(): drops seam edges, occupied cells and Volume are kept
RemoveSplitter(s) == s

\* outcomes of one boolean kernel call: a result of positive or negative
\* Volume, or a fault whose text does / does not carry a recoverable marker
Results      == {"ok", "neg"}
Faults       == {"recoverable", "fatal"}
BoolOutcomes == Results \cup Faults

\* s1.common(s2) / s1.cut(s2) when the call returns
KernelBool(operation, s1, s2, o) ==
  LET c == IF operation = "common" THEN s1.cells \cap s2.cells ELSE s1.cells \ s2.cells
  IN  Solid(c, IF o = "neg" THEN -1 ELSE 1)

\* ------------------------------------------------------------ aggregators
\* beta_diff.py: comp is the outcome of Part.makeCompound
get_combined_shape(doc, comp) ==
  LET ss == get_valid_shapes("beta", doc)
  IN  IF ss = <<>> THEN NoneShape
      ELSE IF Len(ss) = 1 THEN ss[1]
      ELSE IF comp = "ok" THEN MakeCompound(ss)
      ELSE NoneShape

RECURSIVE FuseFold(_, _)
FuseFold(result, rest) ==
  IF rest = <<>> THEN result ELSE FuseFold(Fuse(result, Head(rest)), Tail(rest))

\* step_diff.py: fold is the outcome of the try block ("ok", "fuse_raises",
\* "splitter_raises"), comp the outcome of Part.makeCompound in the handler
get_fused_shape(doc, fold, comp) ==
  LET ss == get_valid_shapes("step", doc)
  IN  IF ss = <<>> THEN [raised |-> FALSE, shape |-> NoneShape]
      ELSE IF Len(ss) = 1 THEN [raised |-> FALSE, shape |-> ss[1]]
      ELSE IF fold = "ok"
           THEN [raised |-> FALSE, shape |-> RemoveSplitter(FuseFold(ss[1], Tail(ss)))]
      ELSE IF comp = "ok" THEN [raised |-> FALSE, shape |-> MakeCompound(ss)]
      ELSE [raised |-> TRUE, shape |-> NoneShape]

FoldOutcomes == {"ok", "fuse_raises", "splitter_raises"}
CompOutcomes == {"ok", "raise"}

\* ------------------------------------------------------ version selection
HasGeometry(doc) == \E i \in 1..Len(doc) : doc[i].kind \in {"shape", "raises"}

Qualifies(var, doc) ==
  /\ get_valid_shapes(var, doc) # <<>>
  /\ var = "beta" => HasGeometry(doc)

\* the filter forgotten: every document is taken as valid
ValidDocsUnfiltered(var, ds) == [i \in 1..Len(ds) |-> i]

ValidDocs(var, ds) ==
  SelectSeq([i \in 1..Len(ds) |-> i], LAMBDA i : Qualifies(var, ds[i]))

\* ----------------------------------------------------------- boolean stage
NormOutcomes == {"fused", "pairwise", "unfused"}

safe_fuse_compound(shape, n) ==
  IF shape.type # "Compound" THEN shape
  ELSE IF n = "unfused" THEN shape
  ELSE [Solid(shape.cells, 1) EXCEPT !.id = shape.id]

simple_boolean_op(shape1, shape2, operation, n1, n2, o) ==
  IF IsNone(shape1) \/ IsNone(shape2) THEN NoneShape
  ELSE LET s1 == safe_fuse_compound(shape1, n1)
           s2 == safe_fuse_compound(shape2, n2)
       IN  IF o \in Faults THEN NoneShape
           ELSE LET result == KernelBool(operation, s1, s2, o)
                IN  IF Abs(result.vol) > TOLLERANZA_VOLUME THEN result ELSE NoneShape

\* step_diff.py: "shape if shape.Volume > TOLLERANZA_VOLUME else None"
StepFilter(s) == IF s.vol > TOLLERANZA_VOLUME THEN s ELSE NoneShape

\* step_diff.py create_comparison_shapes, one boolean with its cleanup:
\* a fault of the kernel call or of removeSplitter leaves the function
StepOutcomes(operation) ==
  IF operation = "cut" THEN BoolOutcomes \cup {"cleanup_raises"} ELSE BoolOutcomes

StepBoolean(shape1, shape2, operation, o) ==
  IF o \in Results
  THEN [raised |-> FALSE,
        shape  |-> IF operation = "cut"
                   THEN RemoveSplitter(KernelBool(operation, shape1, shape2, o))
                   ELSE KernelBool(operation, shape1, shape2, o)]
  ELSE [raised |-> TRUE, shape |-> NoneShape]

\* beta_diff.py create_comparison_shapes, the checks before the booleans
PreValidationRaises(vecchio, nuovo) ==
  \E s \in {vecchio, nuovo} : IsNone(s) \/ Abs(s.vol) < TOLLERANZA_VOLUME

\* the outcome a kernel k gives the call shape1.<operation>(shape2): the
\* intersection does not depend on the order of its operands, a cut is
\* identified by the shape that is cut
Outcome(k, operation, shape1) ==
  IF operation = "common" THEN k.common ELSE k.cut[shape1.id]

NoShapes == [c \in Categories |-> NoneShape]

\* create_comparison_shapes as a function of its two arguments under kernel k
create_comparison_shapes(var, vecchio, nuovo, k) ==
  IF var = "beta"
  THEN IF PreValidationRaises(vecchio, nuovo)
       THEN [raised |-> TRUE, shapes |-> NoShapes]
       ELSE [raised |-> FALSE,
             shapes |->
               [invariate |-> simple_boolean_op(vecchio, nuovo, "common",
                                k.norm[vecchio.id], k.norm[nuovo.id],
                                Outcome(k, "common", vecchio)),
                aggiunte  |-> simple_boolean_op(nuovo, vecchio, "cut",
                                k.norm[nuovo.id], k.norm[vecchio.id],
                                Outcome(k, "cut", nuovo)),
                rimosse   |-> simple_boolean_op(vecchio, nuovo, "cut",
                                k.norm[vecchio.id], k.norm[nuovo.id],
                                Outcome(k, "cut", vecchio))]]
  ELSE LET i == StepBoolean(vecchio, nuovo, "common", Outcome(k, "common", vecchio))
           a == StepBoolean(nuovo, vecchio, "cut", Outcome(k, "cut", nuovo))
           r == StepBoolean(vecchio, nuovo, "cut", Outcome(k, "cut", vecchio))
       IN  IF i.raised \/ a.raised \/ r.raised
           THEN [raised |-> TRUE, shapes |-> NoShapes]
           ELSE [raised |-> FALSE,
                 shapes |-> [invariate |-> StepFilter(i.shape),
                             aggiunte  |-> StepFilter(a.shape),
                             rimosse   |-> StepFilter(r.shape)]]

\* ------------------------------------------------------------------ report
Volumi(sh) == [c \in Categories |-> IF IsNone(sh[c]) THEN 0 ELSE sh[c].vol]

\* beta_diff.py prints a line, with abs(), for the volumes above 0 only;
\* step_diff.py prints the three volumes and their difference
MakeReport(var, sh) ==
  LET volumi == Volumi(sh)
  IN  IF var = "beta"
      THEN [volumi |-> volumi,
            shown  |-> [c \in Categories |-> volumi[c] > 0],
            line   |-> [c \in Categories |-> Abs(volumi[c])],
            hasNet |-> FALSE,
            net    |-> 0]
      ELSE [volumi |-> volumi,
            shown  |-> [c \in Categories |-> TRUE],
            line   |-> volumi,
            hasNet |-> TRUE,
            net    |-> volumi["aggiunte"] - volumi["rimosse"]]

NoReport ==
  [volumi |-> [c \in Categories |-> 0], shown |-> [c \in Categories |-> FALSE],
   line |-> [c \in Categories |-> 0], hasNet |-> FALSE, net |-> 0]

\* ----------------------------------------------------------------- state
NoTrace == [n |-> 0, fold |-> "none", comp |-> "none", raised |-> FALSE]

WithId(s, i) == IF IsNone(s) THEN s ELSE [s EXCEPT !.id = i]

\* one call of the variant's aggregator on a document, with the kernel calls
\* it made: fold / comp are "none" when the call was not reached
Aggregate(var, doc, fold, comp) ==
  LET n == Len(get_valid_shapes(var, doc))
  IN  IF var = "beta"
      THEN [shape  |-> get_combined_shape(doc, comp),
            raised |-> FALSE,
            trace  |-> [n |-> n, fold |-> "none",
                        comp |-> IF n > 1 THEN comp ELSE "none", raised |-> FALSE]]
      ELSE LET r == get_fused_shape(doc, fold, comp)
           IN  [shape  |-> r.shape,
                raised |-> r.raised,
                trace  |-> [n |-> n,
                            fold |-> IF n > 1 THEN fold ELSE "none",
                            comp |-> IF n > 1 /\ fold # "ok" THEN comp ELSE "none",
                            raised |-> r.raised]]

Init ==
  /\ variant \in {"beta", "step"}
  /\ docs \in SeqsUpTo(DocPool, MaxDocs)
  /\ pc = "select"
  /\ collected = <<>>
  /\ doc_old = 0
  /\ doc_new = 0
  /\ vecchio_shape = NoneShape
  /\ nuovo_shape = NoneShape
  /\ aggr = [old |-> NoTrace, new |-> NoTrace]
  /\ kout = [common |-> "unset", cut |-> <<"unset", "unset">>, norm |-> <<"unset", "unset">>]
  /\ res = NoShapes
  /\ shapes = NoShapes
  /\ doc_cmp = [created |-> FALSE, objects |-> {}]
  /\ report = NoReport
  /\ err = "none"
  /\ surfaced = FALSE
  /\ calls = [c \in Categories |-> 0]
  /\ ncomb = [old |-> 0, new |-> 0]

\* the handler of main(): beta_diff.py logs and raises again, step_diff.py
\* prints the message and returns
Abort(e) ==
  /\ pc' = "aborted"
  /\ err' = e
  /\ surfaced' = (variant = "beta")

Continue(next) ==
  /\ pc' = next
  /\ UNCHANGED <<err, surfaced>>

GetComparisonDocuments ==
  /\ pc = "select"
  /\ IF Len(docs) < 2
     THEN /\ Abort("config")
          /\ UNCHANGED <<collected, doc_old, doc_new>>
     ELSE /\ collected' = [i \in 1..Len(docs) |-> get_valid_shapes(variant, docs[i])]
          /\ LET valid_docs == ValidDocs(variant, docs)
             IN  IF Len(valid_docs) < 2
                 THEN /\ Abort("config")
                      /\ UNCHANGED <<doc_old, doc_new>>
                 ELSE /\ doc_old' = valid_docs[1]
                      /\ doc_new' = valid_docs[2]
                      /\ Continue("combine_old")
  /\ UNCHANGED <<variant, docs, vecchio_shape, nuovo_shape, aggr, kout, res,
                 shapes, doc_cmp, report, calls, ncomb>>

CombineOld ==
  /\ pc = "combine_old"
  /\ \E fold \in FoldOutcomes, comp \in CompOutcomes :
       LET a == Aggregate(variant, docs[doc_old], fold, comp)
       IN  /\ aggr' = [aggr EXCEPT !.old = a.trace]
           /\ IF a.raised
              THEN Abort("aggregate") /\ UNCHANGED vecchio_shape
              ELSE vecchio_shape' = WithId(a.shape, 1) /\ Continue("combine_new")
  /\ ncomb' = [ncomb EXCEPT !.old = @ + 1]
  /\ UNCHANGED <<variant, docs, collected, doc_old, doc_new, nuovo_shape, kout,
                 res, shapes, doc_cmp, report, calls>>

CombineNew ==
  /\ pc = "combine_new"
  /\ \E fold \in FoldOutcomes, comp \in CompOutcomes :
       LET a == Aggregate(variant, docs[doc_new], fold, comp)
       IN  /\ aggr' = [aggr EXCEPT !.new = a.trace]
           /\ IF a.raised
              THEN Abort("aggregate") /\ UNCHANGED nuovo_shape
              ELSE nuovo_shape' = WithId(a.shape, 2) /\ Continue("check")
  /\ ncomb' = [ncomb EXCEPT !.new = @ + 1]
  /\ UNCHANGED <<variant, docs, collected, doc_old, doc_new, vecchio_shape, kout,
                 res, shapes, doc_cmp, report, calls>>

CheckShapes ==
  /\ pc = "check"
  /\ IF IsNone(vecchio_shape) \/ IsNone(nuovo_shape)
     THEN Abort("empty")
     ELSE Continue("newdoc")
  /\ UNCHANGED <<variant, docs, collected, doc_old, doc_new, vecchio_shape,
                 nuovo_shape, aggr, kout, res, shapes, doc_cmp, report, calls, ncomb>>

NewDocument ==
  /\ pc = "newdoc"
  /\ doc_cmp' = [created |-> TRUE, objects |-> {}]
  /\ Continue(IF variant = "beta" THEN "prevalidate" ELSE "common")
  /\ UNCHANGED <<variant, docs, collected, doc_old, doc_new, vecchio_shape,
                 nuovo_shape, aggr, kout, res, shapes, report, calls, ncomb>>

PreValidate ==
  /\ pc = "prevalidate"
  /\ IF PreValidationRaises(vecchio_shape, nuovo_shape)
     THEN Abort("prevalidation")
     ELSE Continue("common")
  /\ UNCHANGED <<variant, docs, collected, doc_old, doc_new, vecchio_shape,
                 nuovo_shape, aggr, kout, res, shapes, doc_cmp, report, calls, ncomb>>

\* the outcomes of safe_fuse_compound on an aggregate: it calls the kernel
\* for a Compound only
NormChoices(var, s) ==
  IF var = "beta" /\ s.type = "Compound" THEN NormOutcomes ELSE {"none"}

CallOutcomes(var, operation) ==
  IF var = "beta" THEN BoolOutcomes ELSE StepOutcomes(operation)

\* one boolean of create_comparison_shapes under the kernel k: category cat
\* is computed as shape1.<operation>(shape2)
BooleanStep(cat, shape1, shape2, operation, k, next) ==
  /\ kout' = k
  /\ calls' = [calls EXCEPT ![cat] = @ + 1]
  /\ IF variant = "beta"
     THEN /\ res' = [res EXCEPT ![cat] =
                       simple_boolean_op(shape1, shape2, operation,
                                         k.norm[shape1.id], k.norm[shape2.id],
                                         Outcome(k, operation, shape1))]
          /\ Continue(next)
     ELSE LET r == StepBoolean(shape1, shape2, operation, Outcome(k, operation, shape1))
          IN  IF r.raised
              THEN Abort("kernel") /\ UNCHANGED res
              ELSE res' = [res EXCEPT ![cat] = r.shape] /\ Continue(next)
  /\ UNCHANGED <<variant, docs, collected, doc_old, doc_new, vecchio_shape,
                 nuovo_shape, aggr, shapes, doc_cmp, report, ncomb>>

Invariate ==
  /\ pc = "common"
  /\ \E o \in CallOutcomes(variant, "common"),
        n1 \in NormChoices(variant, vecchio_shape),
        n2 \in NormChoices(variant, nuovo_shape) :
       BooleanStep("invariate", vecchio_shape, nuovo_shape, "common",
                   [kout EXCEPT !.common = o, !.norm = <<n1, n2>>], "cut_add")

\* the operands of the cut exchanged
AggiunteSwappedOperands ==
  /\ pc = "cut_add"
  /\ \E o \in CallOutcomes(variant, "cut") :
       BooleanStep("aggiunte", vecchio_shape, nuovo_shape, "cut",
                   [kout EXCEPT !.cut[vecchio_shape.id] = o], "cut_rem")

Aggiunte ==
  /\ pc = "cut_add"
  /\ \E o \in CallOutcomes(variant, "cut") :
       BooleanStep("aggiunte", nuovo_shape, vecchio_shape, "cut",
                   [kout EXCEPT !.cut[nuovo_shape.id] = o], "cut_rem")

\* the cut invoked once more after a fault
RimosseRetried ==
  /\ pc = "cut_rem"
  /\ \E o \in CallOutcomes(variant, "cut") :
       BooleanStep("rimosse", vecchio_shape, nuovo_shape, "cut",
                   [kout EXCEPT !.cut[vecchio_shape.id] = o],
                   IF o \in Faults /\ calls["rimosse"] = 0 THEN "cut_rem" ELSE "build")

Rimosse ==
  /\ pc = "cut_rem"
  /\ \E o \in CallOutcomes(variant, "cut") :
       BooleanStep("rimosse", vecchio_shape, nuovo_shape, "cut",
                   [kout EXCEPT !.cut[vecchio_shape.id] = o], "build")

\* the dictionary create_comparison_shapes returns
BuildShapes ==
  /\ pc = "build"
  /\ shapes' = IF variant = "beta" THEN res
               ELSE [c \in Categories |-> StepFilter(res[c])]
  /\ Continue("objects")
  /\ UNCHANGED <<variant, docs, collected, doc_old, doc_new, vecchio_shape,
                 nuovo_shape, aggr, kout, res, doc_cmp, report, calls, ncomb>>

AddObjects ==
  /\ pc = "objects"
  /\ doc_cmp' = [doc_cmp EXCEPT !.objects = {c \in Categories : ~IsNone(shapes[c])}]
  /\ Continue("report")
  /\ UNCHANGED <<variant, docs, collected, doc_old, doc_new, vecchio_shape,
                 nuovo_shape, aggr, kout, res, shapes, report, calls, ncomb>>

Report ==
  /\ pc = "report"
  /\ report' = MakeReport(variant, shapes)
  /\ Continue("done")
  /\ UNCHANGED <<variant, docs, collected, doc_old, doc_new, vecchio_shape,
                 nuovo_shape, aggr, kout, res, shapes, doc_cmp, calls, ncomb>>

Next ==
  \/ GetComparisonDocuments
  \/ CombineOld
  \/ CombineNew
  \/ CheckShapes
  \/ NewDocument
  \/ PreValidate
  \/ Invariate
  \/ Aggiunte
  \/ Rimosse
  \/ BuildShapes
  \/ AddObjects
  \/ Report

Spec == Init /\ [][Next]_vars

\* ================================================================ claims
Built == pc \in {"objects", "report", "done"}

\* the outcome the kernel gave the boolean call of a category
OutcomeOf(c) ==
  IF c = "invariate" THEN kout.common
  ELSE IF c = "aggiunte" THEN kout.cut[2]
  ELSE kout.cut[1]

\* what the kernel returned for a category whose call returned
KernelResult(c) ==
  IF c = "invariate" THEN KernelBool("common", vecchio_shape, nuovo_shape, OutcomeOf(c))
  ELSE IF c = "aggiunte" THEN KernelBool("cut", nuovo_shape, vecchio_shape, OutcomeOf(c))
  ELSE KernelBool("cut", vecchio_shape, nuovo_shape, OutcomeOf(c))

AbsVol(s) == IF IsNone(s) THEN 0 ELSE Abs(s.vol)

\* C1: a boolean call that raises a fault with a recoverable marker gives
\* None for its category and the run still completes; a fault without a
\* marker propagates, so the run is aborted and never reaches Done.
C1_FaultClassification ==
  \A c \in Categories :
    /\ (OutcomeOf(c) = "recoverable") => ~(pc = "aborted" /\ err = "kernel")
    /\ (OutcomeOf(c) = "recoverable" /\ Built) => IsNone(shapes[c])
    /\ (OutcomeOf(c) = "fatal") => (pc = "aborted" /\ err = "kernel")

NoKernelRaise ==
  /\ \A c \in Categories : OutcomeOf(c) \in Results
  /\ \A i \in {1, 2} : kout.norm[i] \in {"none", "fused"}
  /\ \A a \in {aggr.old, aggr.new} : a.fold \in {"none", "ok"} /\ a.comp \in {"none", "ok"}

\* C2: when no kernel call raised, |Unchanged| + |Removed| is the Volume of
\* the old aggregate and |Unchanged| + |Added| that of the new one, within
\* the tolerance, an absent category counting 0.
C2_VolumePartition ==
  (Built /\ NoKernelRaise) =>
    /\ Abs(AbsVol(shapes["invariate"]) + AbsVol(shapes["rimosse"]) - AbsVol(vecchio_shape))
         <= TOLLERANZA_VOLUME
    /\ Abs(AbsVol(shapes["invariate"]) + AbsVol(shapes["aggiunte"]) - AbsVol(nuovo_shape))
         <= TOLLERANZA_VOLUME

\* C3: every category of the result is None or a shape with |Volume| above
\* the tolerance, and a kernel result is kept exactly when its |Volume| is
\* above the tolerance, whatever its sign.
C3_CategoriesSignificant ==
  Built =>
    \A c \in Categories :
      /\ ~IsNone(shapes[c]) => Abs(shapes[c].vol) > TOLLERANZA_VOLUME
      /\ OutcomeOf(c) \in Results =>
           (~IsNone(shapes[c]) <=> Abs(KernelResult(c).vol) > TOLLERANZA_VOLUME)

\* the entries a container must give: a shape, valid, |Volume| above the tolerance
ByMagnitude(e) ==
  e.kind = "shape" /\ e.valid /\ Abs(EntryVolume(e)) > TOLLERANZA_VOLUME

ExpectedCollect(doc) ==
  LET kept == SelectSeq(doc, ByMagnitude)
  IN  [j \in 1..Len(kept) |-> ShapeOf(kept[j])]

\* C4: the collector returns, in container order, exactly the valid solids
\* with |Volume| above the tolerance; an entry whose read raises is skipped
\* and the later ones are still examined.
C4_Collect ==
  collected # <<>> =>
    \A i \in 1..Len(docs) : collected[i] = ExpectedCollect(docs[i])

Qualifying == {i \in 1..Len(docs) : get_valid_shapes(variant, docs[i]) # <<>>}

Least(S) == CHOOSE i \in S : \A j \in S : i <= j

NothingStarted ==
  /\ \A c \in Categories : calls[c] = 0
  /\ ncomb = [old |-> 0, new |-> 0]
  /\ aggr = [old |-> NoTrace, new |-> NoTrace]
  /\ ~doc_cmp.created

\* C5: selection takes the first two containers, in the provider's order,
\* from which the collector returns a solid; with fewer than two such
\* containers the run ends in a configuration error before any aggregation
\* or boolean call and before the comparison document exists.
C5_Selection ==
  pc # "select" =>
    IF Cardinality(Qualifying) < 2
    THEN pc = "aborted" /\ err = "config" /\ NothingStarted
    ELSE /\ doc_old = Least(Qualifying)
         /\ doc_new = Least(Qualifying \ {doc_old})

C5_Witness ==
  /\ pc = "combine_old"
  /\ Len(docs) = 3
  /\ doc_old = 2
  /\ doc_new = 3

\* C6: a run that aborts is surfaced to the caller of main() and leaves no
\* comparison document and no category object behind.
C6_AbortSurfaced ==
  pc = "aborted" => (surfaced /\ ~doc_cmp.created /\ doc_cmp.objects = {})

\* C7: under Union, aggregating more than one solid never raises, and when
\* a fuse raises the aggregate is the Compound of all the solids.
C7_UnionFallback ==
  variant = "step" =>
    /\ aggr.old.n > 1 =>
         /\ ~aggr.old.raised
         /\ aggr.old.fold = "fuse_raises" =>
              vecchio_shape = WithId(MakeCompound(get_valid_shapes("step", docs[doc_old])), 1)
    /\ aggr.new.n > 1 =>
         /\ ~aggr.new.raised
         /\ aggr.new.fold = "fuse_raises" =>
              nuovo_shape = WithId(MakeCompound(get_valid_shapes("step", docs[doc_new])), 2)

\* C8: with the same kernel, Added of Diff(Old, New) is Removed of
\* Diff(New, Old), Removed of Diff(Old, New) is Added of Diff(New, Old), and
\* Unchanged is the same in both, absent categories included.
C8_Symmetry ==
  Built =>
    LET swapped == create_comparison_shapes(variant, nuovo_shape, vecchio_shape, kout)
    IN  /\ ~swapped.raised
        /\ shapes["aggiunte"] = swapped.shapes["rimosse"]
        /\ shapes["rimosse"] = swapped.shapes["aggiunte"]
        /\ shapes["invariate"] = swapped.shapes["invariate"]

C8_Witness ==
  /\ pc = "done"
  /\ ~IsNone(shapes["aggiunte"])
  /\ ~IsNone(shapes["rimosse"])
  /\ shapes["aggiunte"] # shapes["rimosse"]

\* C9: the report gives 0 for an absent category and |Volume| for a present
\* one, which is never left out, and the net change it gives is
\* |Added| - |Removed|.
C9_Report ==
  pc = "done" =>
    /\ \A c \in Categories :
         IF IsNone(shapes[c])
         THEN report.volumi[c] = 0
         ELSE report.shown[c] /\ report.line[c] = Abs(shapes[c].vol)
    /\ report.hasNet =>
         report.net = AbsVol(shapes["aggiunte"]) - AbsVol(shapes["rimosse"])

BooleanStageBegun ==
  \/ \E c \in Categories : calls[c] > 0
  \/ pc \in {"cut_add", "cut_rem", "build", "objects", "report", "done"}

\* C10: no boolean is invoked before both aggregates are final and present,
\* each is invoked at most once, a run with an absent aggregate aborts with
\* no boolean invoked, and no version is collected or aggregated again.
C10_Order ==
  /\ \A c \in Categories : calls[c] <= 1
  /\ ncomb.old <= 1 /\ ncomb.new <= 1
  /\ BooleanStageBegun =>
       /\ ncomb = [old |-> 1, new |-> 1]
       /\ ~IsNone(vecchio_shape) /\ ~IsNone(nuovo_shape)
  /\ (ncomb.new = 1 /\ pc # "check" /\ (IsNone(vecchio_shape) \/ IsNone(nuovo_shape))) =>
       (pc = "aborted" /\ \A c \in Categories : calls[c] = 0)

C10_Witness ==
  /\ pc = "done"
  /\ \A c \in Categories : calls[c] = 1

====
